---- MODULE Spec2Model ----
(***************************************************************************)
(* S3Storage (pkg/storage/s3.go) of boring-registry: the module and        *)
(* provider registry operations over an S3 bucket.                         *)
(*                                                                         *)
(* The bucket is a function from object keys to contents (0 = no object).  *)
(* An object key is the sequence of its path segments.  Every backend call *)
(* (HeadObject, PresignGetObject, Upload, Download, ListObjectsV2,         *)
(* CopyObject) has its outcome chosen nondeterministically among the       *)
(* outcomes the bucket allows, failure included.  Each operation keeps the *)
(* list of backend calls it has issued.                                    *)
(***************************************************************************)
EXTENDS Integers, Sequences, FiniteSets, TLC

(***************************************************************************)
(* Bounds                                                                  *)
(***************************************************************************)
MaxBody == 2        \* distinct upload bodies 1..MaxBody
PageSize == 2       \* keys per ListObjectsV2 page

Procs == {1, 2}     \* callers; only caller 1 runs in the sequential Spec

(***************************************************************************)
(* Key scheme (package storage, outside s3.go)                             *)
(***************************************************************************)
internalModuleType == "modules"
internalProviderType == "providers"
DefaultModuleArchiveFormat == "tar.gz"

ArchiveFormats == {"tar.gz", "zip"}
BucketPrefixes == {"tf"}

\* path.Join: empty elements are dropped
Join(elems) == SelectSeq(elems, LAMBDA e : e # "")

modulePathPrefix(prefix, namespace, name, provider) ==
    Join(<<prefix, internalModuleType, namespace, name, provider>>)

modulePath(prefix, namespace, name, provider, version, archiveFormat) ==
    Join(modulePathPrefix(prefix, namespace, name, provider)
            \o <<version, name \o "." \o archiveFormat>>)

providerStoragePrefix(prefix, namespace, name) ==
    Join(<<prefix, internalProviderType, namespace, name>>)

signingKeysPath(prefix, namespace) ==
    Join(<<prefix, internalProviderType, namespace, "signing-keys.json">>)

\* the layout before 0.8.0: key=value directory segments
legacyModulePath(prefix, namespace, name, provider, version, archiveFormat) ==
    Join(<<prefix, internalModuleType, "namespace=" \o namespace, "name=" \o name,
           "provider=" \o provider, "version=" \o version,
           name \o "." \o archiveFormat>>)

legacyProviderPath(prefix, namespace, name, filename) ==
    Join(<<prefix, internalProviderType, "namespace=" \o namespace,
           "name=" \o name, filename>>)

(***************************************************************************)
(* The coordinates and file names used                                     *)
(***************************************************************************)
Namespaces == {"acme"}
ModuleNames == {"vpc"}
ModuleProviders == {"aws"}
Versions == {"1.0.0", "1.1.0"}
ProviderNames == {"random"}
ShasumsFile == "terraform-provider-random_1.0.0_SHA256SUMS"
ArchiveFile == "terraform-provider-random_1.0.0_linux_amd64.zip"
ReleaseFiles == {ShasumsFile, ArchiveFile}

\* the version the callers upload
UploadVersions == {"1.0.0"}

\* the arguments of UploadModule: every full coordinate, each with one field
\* left empty, and the empty coordinate
ModuleInputs ==
    LET full == Namespaces \X ModuleNames \X ModuleProviders \X UploadVersions
    IN  full \cup {[q EXCEPT ![i] = ""] : q \in full, i \in 1..4}
             \cup {<<"", "", "", "">>}

\* the arguments of UploadProviderReleaseFiles, likewise
ProviderInputs ==
    LET full == Namespaces \X ProviderNames \X ReleaseFiles
    IN  full \cup {[q EXCEPT ![i] = ""] : q \in full, i \in 1..3}
             \cup {<<"", "", "">>}

\* the keys of the bucket in S3's listing order (UTF-8 binary order of the
\* full key), for an empty bucket prefix
BaseKeys ==
    << modulePath("", "acme", "vpc", "aws", "1.0.0", "tar.gz"),
       modulePath("", "acme", "vpc", "aws", "1.0.0", "zip"),
       modulePath("", "acme", "vpc", "aws", "1.1.0", "tar.gz"),
       modulePath("", "acme", "vpc", "aws", "1.1.0", "zip"),
       legacyModulePath("", "acme", "vpc", "aws", "1.0.0", "tar.gz"),
       legacyModulePath("", "acme", "vpc", "aws", "1.1.0", "tar.gz"),
       Join(providerStoragePrefix("", "acme", "random") \o <<ShasumsFile>>),
       Join(providerStoragePrefix("", "acme", "random") \o <<ArchiveFile>>),
       signingKeysPath("", "acme"),
       legacyProviderPath("", "acme", "random", ShasumsFile),
       legacyProviderPath("", "acme", "random", ArchiveFile) >>

NumKeys == Len(BaseKeys)

\* a common bucket prefix keeps the order
KeyOrder(prefix) == [i \in 1..NumKeys |-> Join(<<prefix>> \o BaseKeys[i])]
Keys(prefix) == {KeyOrder(prefix)[i] : i \in 1..NumKeys}
Rank(prefix, key) == CHOOSE i \in 1..NumKeys : KeyOrder(prefix)[i] = key

HasPrefix(key, prefix) ==
    /\ Len(prefix) <= Len(key)
    /\ SubSeq(key, 1, Len(prefix)) = prefix

(***************************************************************************)
(* Errors and results                                                      *)
(*                                                                         *)
(* An error is what errors.Is / errors.As can tell about it: the package   *)
(* sentinel it is or wraps ("none" for an ad-hoc fmt.Errorf / errors.New   *)
(* value) and the backend failure it carries in its chain ("none" when it  *)
(* carries none: errors.Wrap(sentinel, err.Error()) keeps only the text).  *)
(***************************************************************************)
Error(sentinel, cause) == [sentinel |-> sentinel, cause |-> cause]
NoError == Error("nil", "nil")

\* what the backend calls fail with
BackendFailure == "failure"     \* network, auth, 5xx, cancelled context
NoSuchKey == "NoSuchKey"        \* GetObject on an absent key

ErrModuleNotFound == Error("ErrModuleNotFound", "none")
ErrModuleAlreadyExists == Error("ErrModuleAlreadyExists", "none")
ErrModuleUploadFailed == Error("ErrModuleUploadFailed", "none")
ErrModuleListFailed == Error("ErrModuleListFailed", "none")
ErrProviderAlreadyExists == Error("ErrProviderAlreadyExists", "none")
ErrProviderListFailed == Error("ErrProviderListFailed", "none")

EmptyModule ==
    [Namespace |-> "", Name |-> "", Provider |-> "", Version |-> "",
     DownloadURL |-> <<>>]

\* a call that ended by returning
Returned(err, value) == [status |-> "returned", err |-> err, value |-> value]
\* a call that ended in a run-time panic
Panicked == [status |-> "panic", err |-> NoError, value |-> <<>>]
NoResult == [status |-> "none", err |-> NoError, value |-> <<>>]

\* a backend call as the client saw it: the API, the key, the outcome
Call(api, key, outcome) == <<api, key, outcome>>

(***************************************************************************)
(* Backend calls                                                           *)
(***************************************************************************)
\* the outcomes HeadObject can have on a bucket
HeadOutcomes(st, key) ==
    {"failure"} \cup (IF key \in DOMAIN st /\ st[key] # 0 THEN {"ok"} ELSE {"404"})

PresignOutcomes == {"ok", "failure"}
UploadOutcomes == {"ok", "failure"}

PresignedURL(key) == <<"https:">> \o key

\* objectExists returning every HeadObject error, the 404 response included
objectExistsNotFoundIsError(head) ==
    IF head = "ok" THEN [exists |-> TRUE, err |-> NoError]
    ELSE [exists |-> FALSE, err |-> Error("none", BackendFailure)]

\* objectExists taking every HeadObject error for "does not exist"
objectExistsAnyError(head) ==
    IF head = "ok" THEN [exists |-> TRUE, err |-> NoError]
    ELSE [exists |-> FALSE, err |-> NoError]

\* objectExists: only a 404 response error is "does not exist"
objectExists(head) ==
    IF head = "ok" THEN [exists |-> TRUE, err |-> NoError]
    ELSE IF head = "404" THEN [exists |-> FALSE, err |-> NoError]
    ELSE [exists |-> FALSE, err |-> Error("none", BackendFailure)]

\* presignedURL returns presignResult.URL: PresignGetObject returns a nil
\* result with its error, so a failed presign is a nil dereference
presignedURL(key, presign) ==
    IF presign = "ok"
    THEN [panic |-> FALSE, url |-> PresignedURL(key)]
    ELSE [panic |-> TRUE, url |-> <<>>]

(***************************************************************************)
(* GetModule, given the outcomes of its backend calls                      *)
(***************************************************************************)
GetModuleKey(c, namespace, name, provider, version) ==
    modulePath(c.bucketPrefix, namespace, name, provider, version,
               c.moduleArchiveFormat)

GetModule(c, namespace, name, provider, version, head, presign) ==
    LET key == GetModuleKey(c, namespace, name, provider, version)
        ex == objectExists(head)
        ps == presignedURL(key, presign)
        headCall == Call("HeadObject", key, head)
        presignCall == Call("PresignGetObject", key, presign)
    IN  IF ex.err # NoError
        THEN [calls |-> <<headCall>>, result |-> Returned(ex.err, EmptyModule)]
        ELSE IF ~ex.exists
        THEN [calls |-> <<headCall>>,
              result |-> Returned(ErrModuleNotFound, EmptyModule)]
        ELSE IF ps.panic
        THEN [calls |-> <<headCall, presignCall>>, result |-> Panicked]
        ELSE [calls |-> <<headCall, presignCall>>,
              result |-> Returned(NoError,
                            [Namespace |-> namespace, Name |-> name,
                             Provider |-> provider, Version |-> version,
                             DownloadURL |-> ps.url])]

(***************************************************************************)
(* State                                                                   *)
(***************************************************************************)
VARIABLES
    cfg,        \* the S3Storage fields fixed by NewS3Storage
    store,      \* the bucket: key -> content, 0 when there is no object
    pc,         \* per caller: where its upload stands
    req,        \* per caller: the arguments of its current or last upload
    res,        \* per caller: what its last upload returned
    calls,      \* per caller: the backend calls its upload has issued
    rd,         \* the last read operation: arguments, backend calls, result
    mig,        \* the migration run in progress or last finished
    log         \* what the migration run has written to its logger

vars == <<cfg, store, pc, req, res, calls, rd, mig, log>>

NoRequest ==
    [op |-> "none", namespace |-> "", name |-> "", provider |-> "",
     version |-> "", filename |-> "", body |-> 0]

ModuleRequest(namespace, name, provider, version, body) ==
    [op |-> "UploadModule", namespace |-> namespace, name |-> name,
     provider |-> provider, version |-> version, filename |-> "", body |-> body]

ProviderRequest(namespace, name, filename, body) ==
    [op |-> "UploadProviderReleaseFiles", namespace |-> namespace, name |-> name,
     provider |-> "", version |-> "", filename |-> filename, body |-> body]

NoRead == [op |-> "none", args |-> <<>>, calls |-> <<>>, result |-> NoResult]

NoMigration ==
    [op |-> "none", dryRun |-> FALSE, pc |-> "none", token |-> 0, page |-> <<>>,
     more |-> FALSE, calls |-> <<>>, result |-> NoResult]

EmptyStore(prefix) == [k \in Keys(prefix) |-> 0]

\* a bucket still in the layout before 0.8.0, with the namespace's key set
LegacyStore(prefix) ==
    [k \in Keys(prefix) |->
        IF k = legacyModulePath(prefix, "acme", "vpc", "aws", "1.0.0", "tar.gz") THEN 1
        ELSE IF k = legacyModulePath(prefix, "acme", "vpc", "aws", "1.1.0", "tar.gz") THEN 2
        ELSE IF k = legacyProviderPath(prefix, "acme", "random", ShasumsFile) THEN 1
        ELSE IF k = legacyProviderPath(prefix, "acme", "random", ArchiveFile) THEN 2
        ELSE IF k = signingKeysPath(prefix, "acme") THEN 1
        ELSE 0]

\* a bucket migrated in part: a module and a release file are at their
\* current keys already, the release file with newer content
MixedStore(prefix) ==
    [k \in Keys(prefix) |->
        IF k = modulePath(prefix, "acme", "vpc", "aws", "1.0.0", "tar.gz") THEN 1
        ELSE IF k = Join(providerStoragePrefix(prefix, "acme", "random")
                            \o <<ArchiveFile>>) THEN 1
        ELSE LegacyStore(prefix)[k]]

\* a bucket in the current layout: both module versions in both archive
\* formats, the release files of the provider and the namespace's key set
CurrentStore(prefix) ==
    [k \in Keys(prefix) |->
        IF k = legacyModulePath(prefix, "acme", "vpc", "aws", "1.0.0", "tar.gz") THEN 0
        ELSE IF k = legacyModulePath(prefix, "acme", "vpc", "aws", "1.1.0", "tar.gz") THEN 0
        ELSE IF k = legacyProviderPath(prefix, "acme", "random", ShasumsFile) THEN 0
        ELSE IF k = legacyProviderPath(prefix, "acme", "random", ArchiveFile) THEN 0
        ELSE 1]

\* the state NewS3Storage leaves, on one of the given buckets
InitOn(stores) ==
    /\ cfg \in [bucketPrefix : BucketPrefixes, moduleArchiveFormat : ArchiveFormats]
    /\ store \in {st[cfg.bucketPrefix] : st \in stores}
    /\ pc = [p \in Procs |-> "idle"]
    /\ req = [p \in Procs |-> NoRequest]
    /\ res = [p \in Procs |-> NoResult]
    /\ calls = [p \in Procs |-> <<>>]
    /\ rd = NoRead
    /\ mig = NoMigration
    /\ log = <<>>

\* a registry being served: a new bucket, one from before 0.8.0, one
\* migrated in part, or one in the current layout
Init ==
    InitOn({[prefix \in BucketPrefixes |-> EmptyStore(prefix)],
            [prefix \in BucketPrefixes |-> LegacyStore(prefix)],
            [prefix \in BucketPrefixes |-> MixedStore(prefix)],
            [prefix \in BucketPrefixes |-> CurrentStore(prefix)]})

\* a registry about to be migrated
InitMigrate ==
    InitOn({[prefix \in BucketPrefixes |-> LegacyStore(prefix)],
            [prefix \in BucketPrefixes |-> MixedStore(prefix)]})

AtRest(p) == pc[p] \in {"idle", "done"}
MigrationAtRest == mig.pc \in {"none", "done"}
\* calls are served one at a time: no read is waiting for its caller
ReadAtRest == rd = NoRead

\* a new call leaves nothing of the reads and migrations before it
ForgetOthers == rd' = NoRead /\ mig' = NoMigration /\ log' = <<>>

\* a read or a migration leaves nothing of the uploads before it
ForgetUploads ==
    /\ pc' = [p \in Procs |-> "idle"]
    /\ req' = [p \in Procs |-> NoRequest]
    /\ res' = [p \in Procs |-> NoResult]
    /\ calls' = [p \in Procs |-> <<>>]

Finish(p, result) ==
    /\ pc' = [pc EXCEPT ![p] = "done"]
    /\ res' = [res EXCEPT ![p] = result]

(***************************************************************************)
(* UploadModule                                                            *)
(***************************************************************************)
UploadModuleKey(c, r) ==
    modulePath(c.bucketPrefix, r.namespace, r.name, r.provider, r.version,
               DefaultModuleArchiveFormat)

\* the namespace looked at, the other fields not
ValidModuleRequestNamespaceOnly(r) == r.namespace # ""

\* lines 122-136
ValidModuleRequest(r) ==
    r.namespace # "" /\ r.name # "" /\ r.provider # "" /\ r.version # ""

\* lines 121-142: validation, then the existence check through GetModule
UploadModuleCall(p) ==
    /\ AtRest(p) /\ MigrationAtRest /\ ReadAtRest
    /\ ForgetOthers
    /\ \E in \in ModuleInputs, body \in 1..MaxBody :
        LET namespace == in[1]
            name == in[2]
            provider == in[3]
            version == in[4]
            r == ModuleRequest(namespace, name, provider, version, body)
        IN
        /\ req' = [req EXCEPT ![p] = r]
        /\ IF ~ValidModuleRequest(r)
           THEN /\ calls' = [calls EXCEPT ![p] = <<>>]
                /\ Finish(p, Returned(Error("none", "none"), EmptyModule))
           ELSE \E head \in HeadOutcomes(store,
                               GetModuleKey(cfg, namespace, name, provider, version)),
                   presign \in PresignOutcomes :
                LET g == GetModule(cfg, namespace, name, provider, version,
                                   head, presign) IN
                /\ calls' = [calls EXCEPT ![p] = g.calls]
                /\ IF g.result.status = "panic"
                   THEN Finish(p, Panicked)
                   ELSE IF g.result.err = NoError
                   THEN Finish(p, Returned(ErrModuleAlreadyExists, EmptyModule))
                   ELSE /\ pc' = [pc EXCEPT ![p] = "UploadModule:upload"]
                        /\ res' = [res EXCEPT ![p] = NoResult]
    /\ UNCHANGED <<cfg, store>>

\* lines 144-152: the put
UploadModuleUpload(p) ==
    /\ pc[p] = "UploadModule:upload"
    /\ LET key == UploadModuleKey(cfg, req[p]) IN
       \E upload \in UploadOutcomes :
            /\ calls' = [calls EXCEPT ![p] = Append(@, Call("Upload", key, upload))]
            /\ IF upload = "ok"
               THEN /\ store' = [store EXCEPT ![key] = req[p].body]
                    /\ pc' = [pc EXCEPT ![p] = "UploadModule:readback"]
                    /\ UNCHANGED res
               ELSE /\ Finish(p, Returned(ErrModuleUploadFailed, EmptyModule))
                    /\ UNCHANGED store
    /\ UNCHANGED <<cfg, req, rd, mig, log>>

\* the object taken out again when the fresh GetModule does not return it
UploadModuleReadBackOrUndo(p) ==
    /\ pc[p] = "UploadModule:readback"
    /\ LET r == req[p] IN
       \E head \in HeadOutcomes(store,
                      GetModuleKey(cfg, r.namespace, r.name, r.provider, r.version)),
          presign \in PresignOutcomes :
        LET g == GetModule(cfg, r.namespace, r.name, r.provider, r.version,
                           head, presign) IN
        /\ calls' = [calls EXCEPT ![p] = @ \o g.calls]
        /\ Finish(p, g.result)
        /\ store' = IF g.result.status = "returned" /\ g.result.err = NoError
                    THEN store
                    ELSE [store EXCEPT ![UploadModuleKey(cfg, r)] = 0]
    /\ UNCHANGED <<cfg, req, rd, mig, log>>

\* line 154: the result is a fresh GetModule
UploadModuleReadBack(p) ==
    /\ pc[p] = "UploadModule:readback"
    /\ LET r == req[p] IN
       \E head \in HeadOutcomes(store,
                      GetModuleKey(cfg, r.namespace, r.name, r.provider, r.version)),
          presign \in PresignOutcomes :
        LET g == GetModule(cfg, r.namespace, r.name, r.provider, r.version,
                           head, presign) IN
        /\ calls' = [calls EXCEPT ![p] = @ \o g.calls]
        /\ Finish(p, g.result)
    /\ UNCHANGED <<cfg, store, req, rd, mig, log>>

(***************************************************************************)
(* UploadProviderReleaseFiles                                              *)
(***************************************************************************)
ProviderReleaseKey(c, r) ==
    Join(providerStoragePrefix(c.bucketPrefix, r.namespace, r.name)
            \o <<r.filename>>)

ValidProviderRequest(r) ==
    r.namespace # "" /\ r.name # "" /\ r.filename # ""

\* lines 328-352: validation, then the existence check
UploadProviderReleaseFilesCall(p) ==
    /\ AtRest(p) /\ MigrationAtRest /\ ReadAtRest
    /\ ForgetOthers
    /\ \E in \in ProviderInputs, body \in 1..MaxBody :
        LET r == ProviderRequest(in[1], in[2], in[3], body) IN
        /\ req' = [req EXCEPT ![p] = r]
        /\ IF ~ValidProviderRequest(r)
           THEN /\ calls' = [calls EXCEPT ![p] = <<>>]
                /\ Finish(p, Returned(Error("none", "none"), <<>>))
           ELSE LET key == ProviderReleaseKey(cfg, r) IN
                \E head \in HeadOutcomes(store, key) :
                LET ex == objectExists(head) IN
                /\ calls' = [calls EXCEPT ![p] = <<Call("HeadObject", key, head)>>]
                /\ IF ex.err # NoError
                   THEN Finish(p, Returned(ex.err, <<>>))
                   ELSE IF ex.exists
                   THEN Finish(p, Returned(ErrProviderAlreadyExists, <<>>))
                   ELSE /\ pc' = [pc EXCEPT ![p] = "UploadProviderReleaseFiles:upload"]
                        /\ res' = [res EXCEPT ![p] = NoResult]
    /\ UNCHANGED <<cfg, store>>

\* the put made conditional on the key still being absent
UploadProviderReleaseFilesUploadIfAbsent(p) ==
    /\ pc[p] = "UploadProviderReleaseFiles:upload"
    /\ LET key == ProviderReleaseKey(cfg, req[p]) IN
       \E upload \in UploadOutcomes :
            /\ calls' = [calls EXCEPT ![p] = Append(@, Call("Upload", key, upload))]
            /\ IF upload = "ok" /\ store[key] = 0
               THEN /\ store' = [store EXCEPT ![key] = req[p].body]
                    /\ Finish(p, Returned(NoError, <<>>))
               ELSE IF upload = "ok"
               THEN /\ Finish(p, Returned(ErrProviderAlreadyExists, <<>>))
                    /\ UNCHANGED store
               ELSE /\ Finish(p, Returned(Error("none", BackendFailure), <<>>))
                    /\ UNCHANGED store
    /\ UNCHANGED <<cfg, req, rd, mig, log>>

\* lines 354-364: the put
UploadProviderReleaseFilesUpload(p) ==
    /\ pc[p] = "UploadProviderReleaseFiles:upload"
    /\ LET key == ProviderReleaseKey(cfg, req[p]) IN
       \E upload \in UploadOutcomes :
            /\ calls' = [calls EXCEPT ![p] = Append(@, Call("Upload", key, upload))]
            /\ IF upload = "ok"
               THEN /\ store' = [store EXCEPT ![key] = req[p].body]
                    /\ Finish(p, Returned(NoError, <<>>))
               ELSE /\ Finish(p, Returned(Error("none", BackendFailure), <<>>))
                    /\ UNCHANGED store
    /\ UNCHANGED <<cfg, req, rd, mig, log>>

(***************************************************************************)
(* Listing: ListObjectsV2 through the SDK's paginator                      *)
(***************************************************************************)
\* the objects whose key starts with keyPrefix, in listing order
Listed(c, st, keyPrefix) ==
    SelectSeq(KeyOrder(c.bucketPrefix),
              LAMBDA k : st[k] # 0 /\ HasPrefix(k, keyPrefix))

Min(a, b) == IF a < b THEN a ELSE b

\* one ListObjectsV2 response: at most PageSize keys after the continuation
\* token (the rank of the last key returned so far), and whether more follow
NextPage(c, st, keyPrefix, token) ==
    LET rest == SelectSeq(Listed(c, st, keyPrefix),
                          LAMBDA k : Rank(c.bucketPrefix, k) > token)
        contents == SubSeq(rest, 1, Min(PageSize, Len(rest)))
    IN  [contents |-> contents,
         truncated |-> Len(rest) > PageSize,
         token |-> IF contents = <<>> THEN token
                   ELSE Rank(c.bucketPrefix, contents[Len(contents)])]

\* the number of pages a listing of an unchanging bucket fetches
PageCount(c, st, keyPrefix) ==
    LET n == Len(Listed(c, st, keyPrefix))
    IN  IF n = 0 THEN 1 ELSE (n + PageSize - 1) \div PageSize

PageOutcomes == {"ok", "failure"}

(***************************************************************************)
(* Reverse parsers (package storage and package core, outside s3.go)       *)
(***************************************************************************)
\* the archive taken for a module whatever its file extension
moduleFromObjectAnyExtension(key, fileExtension) ==
    LET n == Len(key)
        ok == /\ n >= 6
              /\ key[n - 5] = internalModuleType
              /\ \A i \in (n - 4)..n : key[i] # ""
    IN  IF ok
        THEN [err |-> FALSE,
              module |-> [Namespace |-> key[n - 4], Name |-> key[n - 3],
                          Provider |-> key[n - 2], Version |-> key[n - 1],
                          DownloadURL |-> <<>>]]
        ELSE [err |-> TRUE, module |-> EmptyModule]

\* moduleFromObject: the last five segments are namespace, name, provider,
\* version and <name>.<fileExtension>
moduleFromObject(key, fileExtension) ==
    LET n == Len(key)
        ok == /\ n >= 6
              /\ key[n - 5] = internalModuleType
              /\ \A i \in (n - 4)..n : key[i] # ""
              /\ key[n] = key[n - 3] \o "." \o fileExtension
    IN  IF ok
        THEN [err |-> FALSE,
              module |-> [Namespace |-> key[n - 4], Name |-> key[n - 3],
                          Provider |-> key[n - 2], Version |-> key[n - 1],
                          DownloadURL |-> <<>>]]
        ELSE [err |-> TRUE, module |-> EmptyModule]

OSes == {"linux"}
Arches == {"amd64"}

ArchiveFileName(name, version, os, arch) ==
    "terraform-provider-" \o name \o "_" \o version \o "_" \o os \o "_" \o arch \o ".zip"

\* core.NewProviderFromArchive: the file name must follow
\* terraform-provider-<name>_<version>_<os>_<arch>.zip
NewProviderFromArchive(key) ==
    LET file == key[Len(key)]
        fits == {q \in ProviderNames \X Versions \X OSes \X Arches :
                    file = ArchiveFileName(q[1], q[2], q[3], q[4])}
    IN  IF fits = {}
        THEN [err |-> TRUE, provider |-> <<>>]
        ELSE LET q == CHOOSE q \in fits : TRUE
             IN  [err |-> FALSE,
                  provider |-> [Name |-> q[1], Version |-> q[2], OS |-> q[3],
                                Arch |-> q[4], Filename |-> file]]

\* Collection.List: one ProviderVersion per version, ascending, with its
\* platforms free of duplicates
VersionOrder == <<"1.0.0", "1.1.0">>

CollectionList(collection) ==
    LET versions == SelectSeq(VersionOrder,
                        LAMBDA v : \E q \in collection : q.Version = v)
    IN  [i \in 1..Len(versions) |->
            [Version |-> versions[i],
             Platforms |-> {<<q.OS, q.Arch>> : q \in {r \in collection :
                                                  r.Version = versions[i]}}]]

(***************************************************************************)
(* GetModule as an operation                                               *)
(***************************************************************************)
GetModuleCall ==
    /\ AtRest(1) /\ MigrationAtRest /\ ReadAtRest
    /\ \E namespace \in Namespaces, name \in ModuleNames,
          provider \in ModuleProviders, version \in Versions :
       \E head \in HeadOutcomes(store,
                      GetModuleKey(cfg, namespace, name, provider, version)),
          presign \in PresignOutcomes :
        LET g == GetModule(cfg, namespace, name, provider, version, head, presign) IN
        rd' = [op |-> "GetModule",
               args |-> <<namespace, name, provider, version>>,
               calls |-> g.calls, result |-> g.result]
    /\ ForgetUploads
    /\ mig' = NoMigration /\ log' = <<>>
    /\ UNCHANGED <<cfg, store>>

(***************************************************************************)
(* ListModuleVersions                                                      *)
(***************************************************************************)
ListStart == [status |-> "running", calls |-> <<>>, items |-> <<>>, presigns |-> 0]

\* lines 100-114: the objects of one page
RECURSIVE ListModuleObjects(_, _, _, _)
ListModuleObjects(c, objs, presignFail, acc) ==
    IF objs = <<>> \/ acc.status # "running" THEN acc
    ELSE LET m == moduleFromObject(Head(objs), c.moduleArchiveFormat) IN
         IF m.err
         THEN ListModuleObjects(c, Tail(objs), presignFail, acc)
         ELSE LET key == modulePath(c.bucketPrefix, m.module.Namespace,
                                    m.module.Name, m.module.Provider,
                                    m.module.Version, c.moduleArchiveFormat)
                  n == acc.presigns + 1
                  outcome == IF n = presignFail THEN "failure" ELSE "ok"
                  ps == presignedURL(key, outcome)
                  called == Append(acc.calls, Call("PresignGetObject", key, outcome))
              IN  IF ps.panic
                  THEN [acc EXCEPT !.status = "panic", !.calls = called]
                  ELSE ListModuleObjects(c, Tail(objs), presignFail,
                          [acc EXCEPT !.calls = called, !.presigns = n,
                                      !.items = Append(@,
                                          [m.module EXCEPT !.DownloadURL = ps.url])])

\* lines 92-117: page after page; page number failAt fails to be fetched
\* (0: none does), presign number presignFail fails (0: none does)
RECURSIVE ListModulePages(_, _, _, _, _, _, _, _)
ListModulePages(c, st, keyPrefix, token, pageNo, failAt, presignFail, acc) ==
    IF pageNo = failAt
    THEN [acc EXCEPT !.status = "listfailed",
                     !.calls = Append(@, Call("ListObjectsV2", keyPrefix, "failure"))]
    ELSE LET pg == NextPage(c, st, keyPrefix, token)
             after == ListModuleObjects(c, pg.contents, presignFail,
                         [acc EXCEPT !.calls =
                             Append(@, Call("ListObjectsV2", keyPrefix, "ok"))])
         IN  IF after.status # "running" THEN after
             ELSE IF pg.truncated
             THEN ListModulePages(c, st, keyPrefix, pg.token, pageNo + 1,
                                  failAt, presignFail, after)
             ELSE [after EXCEPT !.status = "done"]

ListModuleVersions(c, st, namespace, name, provider, failAt, presignFail) ==
    LET keyPrefix == modulePathPrefix(c.bucketPrefix, namespace, name, provider)
        walk == ListModulePages(c, st, keyPrefix, 0, 1, failAt, presignFail, ListStart)
    IN  [calls |-> walk.calls,
         result |-> IF walk.status = "listfailed"
                    THEN Returned(ErrModuleListFailed, <<>>)
                    ELSE IF walk.status = "panic" THEN Panicked
                    ELSE Returned(NoError, walk.items)]

ListModuleVersionsCall ==
    /\ AtRest(1) /\ MigrationAtRest /\ ReadAtRest
    /\ \E namespace \in Namespaces, name \in ModuleNames, provider \in ModuleProviders :
        LET keyPrefix == modulePathPrefix(cfg.bucketPrefix, namespace, name, provider) IN
        \E failAt \in 0..PageCount(cfg, store, keyPrefix),
           presignFail \in 0..Len(Listed(cfg, store, keyPrefix)) :
            LET l == ListModuleVersions(cfg, store, namespace, name, provider,
                                        failAt, presignFail) IN
            rd' = [op |-> "ListModuleVersions",
                   args |-> <<namespace, name, provider>>,
                   calls |-> l.calls, result |-> l.result]
    /\ ForgetUploads
    /\ mig' = NoMigration /\ log' = <<>>
    /\ UNCHANGED <<cfg, store>>

(***************************************************************************)
(* ListProviderVersions                                                    *)
(***************************************************************************)
\* lines 309-316: the objects of one page go into the collection
RECURSIVE ListProviderObjects(_, _)
ListProviderObjects(objs, acc) ==
    IF objs = <<>> THEN acc
    ELSE LET q == NewProviderFromArchive(Head(objs)) IN
         IF q.err
         THEN ListProviderObjects(Tail(objs), acc)
         ELSE ListProviderObjects(Tail(objs),
                                  [acc EXCEPT !.items = Append(@, q.provider)])

\* lines 301-317
RECURSIVE ListProviderPages(_, _, _, _, _, _, _)
ListProviderPages(c, st, keyPrefix, token, pageNo, failAt, acc) ==
    IF pageNo = failAt
    THEN [acc EXCEPT !.status = "listfailed",
                     !.calls = Append(@, Call("ListObjectsV2", keyPrefix, "failure"))]
    ELSE LET pg == NextPage(c, st, keyPrefix, token)
             after == ListProviderObjects(pg.contents,
                         [acc EXCEPT !.calls =
                             Append(@, Call("ListObjectsV2", keyPrefix, "ok"))])
         IN  IF pg.truncated
             THEN ListProviderPages(c, st, keyPrefix, pg.token, pageNo + 1,
                                    failAt, after)
             ELSE [after EXCEPT !.status = "done"]

\* the result handed back as it is, empty or not
ListProviderVersionsResultAsIs(result) == Returned(NoError, result)

\* lines 319-325: an empty result is an error made on the spot
ListProviderVersionsResult(result) ==
    IF Len(result) = 0
    THEN Returned(Error("none", "none"), <<>>)
    ELSE Returned(NoError, result)

ListProviderVersions(c, st, namespace, name, failAt) ==
    LET keyPrefix == providerStoragePrefix(c.bucketPrefix, namespace, name)
        walk == ListProviderPages(c, st, keyPrefix, 0, 1, failAt, ListStart)
        collection == {walk.items[i] : i \in 1..Len(walk.items)}
    IN  [calls |-> walk.calls,
         result |-> IF walk.status = "listfailed"
                    THEN Returned(ErrProviderListFailed, <<>>)
                    ELSE ListProviderVersionsResult(CollectionList(collection))]

ListProviderVersionsCall ==
    /\ AtRest(1) /\ MigrationAtRest /\ ReadAtRest
    /\ \E namespace \in Namespaces, name \in ProviderNames :
        LET keyPrefix == providerStoragePrefix(cfg.bucketPrefix, namespace, name) IN
        \E failAt \in 0..PageCount(cfg, store, keyPrefix) :
            LET l == ListProviderVersions(cfg, store, namespace, name, failAt) IN
            rd' = [op |-> "ListProviderVersions",
                   args |-> <<namespace, name>>,
                   calls |-> l.calls, result |-> l.result]
    /\ ForgetUploads
    /\ mig' = NoMigration /\ log' = <<>>
    /\ UNCHANGED <<cfg, store>>

(***************************************************************************)
(* SigningKeys                                                             *)
(***************************************************************************)
\* the outcomes Download can have on a bucket
DownloadOutcomes(st, key) ==
    {"failure"} \cup (IF st[key] # 0 THEN {"ok"} ELSE {NoSuchKey})

\* download: the backend's error stays in the chain of the wrapped one
download(st, key, outcome) ==
    IF outcome = "ok"
    THEN [bytes |-> st[key], err |-> NoError]
    ELSE [bytes |-> 0, err |-> Error("none", outcome)]

\* unmarshalSigningKeys: content 1 is a key set document, any other content
\* does not decode
unmarshalSigningKeys(raw) ==
    IF raw = 1
    THEN Returned(NoError, <<"gpg-public-key">>)
    ELSE Returned(Error("none", "none"), <<>>)

SigningKeys(c, st, namespace, outcome) ==
    LET key == signingKeysPath(c.bucketPrefix, namespace)
        d == download(st, key, outcome)
    IN  IF namespace = ""
        THEN [calls |-> <<>>, result |-> Returned(Error("none", "none"), <<>>)]
        ELSE IF d.err # NoError
        THEN [calls |-> <<Call("Download", key, outcome)>>,
              result |-> Returned(Error("none", d.err.cause), <<>>)]
        ELSE [calls |-> <<Call("Download", key, outcome)>>,
              result |-> unmarshalSigningKeys(d.bytes)]

\* a SigningKeys that puts a key set where it finds none
SigningKeysCallOrCreate ==
    /\ AtRest(1) /\ MigrationAtRest /\ ReadAtRest
    /\ \E namespace \in Namespaces :
       \E outcome \in DownloadOutcomes(store,
                          signingKeysPath(cfg.bucketPrefix, namespace)) :
        LET k == SigningKeys(cfg, store, namespace, outcome) IN
        /\ rd' = [op |-> "SigningKeys", args |-> <<namespace>>,
                  calls |-> k.calls, result |-> k.result]
        /\ store' = IF outcome = NoSuchKey
                    THEN [store EXCEPT ![signingKeysPath(cfg.bucketPrefix, namespace)] = 1]
                    ELSE store
    /\ ForgetUploads
    /\ mig' = NoMigration /\ log' = <<>>
    /\ UNCHANGED cfg

SigningKeysCall ==
    /\ AtRest(1) /\ MigrationAtRest /\ ReadAtRest
    /\ \E namespace \in Namespaces \cup {""} :
       \E outcome \in IF namespace = "" THEN {"ok"}
                      ELSE DownloadOutcomes(store,
                               signingKeysPath(cfg.bucketPrefix, namespace)) :
        LET k == SigningKeys(cfg, store, namespace, outcome) IN
        rd' = [op |-> "SigningKeys", args |-> <<namespace>>,
               calls |-> k.calls, result |-> k.result]
    /\ ForgetUploads
    /\ mig' = NoMigration /\ log' = <<>>
    /\ UNCHANGED <<cfg, store>>

(***************************************************************************)
(* GetProvider                                                             *)
(***************************************************************************)
\* the version of the provider that has release files in the bucket
ProviderVersions == {"1.0.0"}

SHASumsFileName(name, version) ==
    "terraform-provider-" \o name \o "_" \o version \o "_SHA256SUMS"

\* internalProviderPath: the keys of the archive, of the version's shasums
\* manifest and of the manifest's signature
internalProviderPath(prefix, namespace, name, version, os, arch) ==
    LET dir == providerStoragePrefix(prefix, namespace, name) IN
    [archive |-> Join(dir \o <<ArchiveFileName(name, version, os, arch)>>),
     shasum |-> Join(dir \o <<SHASumsFileName(name, version)>>),
     shasumSig |-> Join(dir \o <<SHASumsFileName(name, version) \o ".sig">>)]

\* path.Base of a key
Base(key) == key[Len(key)]

\* a line of a manifest: a digest and a file name, or text that is neither
ManifestLine(digest, filename) == [digest |-> digest, filename |-> filename]
MalformedLine == [digest |-> "", filename |-> ""]

\* the manifests the contents stand for: 1 lists the darwin and the linux
\* archive of 1.0.0, 2 lists the darwin archive only, any other content has a
\* line that cannot be split
Manifest(raw) ==
    IF raw = 1
    THEN << ManifestLine("bbb222", ArchiveFileName("random", "1.0.0", "darwin", "arm64")),
            ManifestLine("aaa111", ArchiveFileName("random", "1.0.0", "linux", "amd64")) >>
    ELSE IF raw = 2
    THEN << ManifestLine("bbb222", ArchiveFileName("random", "1.0.0", "darwin", "arm64")) >>
    ELSE << MalformedLine >>

\* the lines of a manifest in turn, up to the line for the file
RECURSIVE scanSHASums(_, _)
scanSHASums(lines, name) ==
    IF lines = <<>> THEN [err |-> Error("none", "none"), shasum |-> ""]
    ELSE IF Head(lines) = MalformedLine
    THEN [err |-> Error("none", "none"), shasum |-> ""]
    ELSE IF Head(lines).filename = name
    THEN [err |-> NoError, shasum |-> Head(lines).digest]
    ELSE scanSHASums(Tail(lines), name)

\* the digest of the first line, whatever file it is for
readSHASumsFirstLine(raw, name) ==
    LET lines == Manifest(raw) IN
    IF Head(lines) = MalformedLine
    THEN [err |-> Error("none", "none"), shasum |-> ""]
    ELSE [err |-> NoError, shasum |-> Head(lines).digest]

\* readSHASums: the digest of the line for exactly this file name; an error
\* when a line cannot be split or no line is for the file
readSHASums(raw, name) == scanSHASums(Manifest(raw), name)

EmptyProvider ==
    [Namespace |-> "", Name |-> "", Version |-> "", OS |-> "", Arch |-> "",
     Shasum |-> "", Filename |-> "", DownloadURL |-> <<>>, SHASumsURL |-> <<>>,
     SHASumsSignatureURL |-> <<>>, SigningKeys |-> <<>>]

\* lines 241-288; o gives the outcome of each backend call, were it made
GetProvider(c, st, namespace, name, version, os, arch, o) ==
    LET paths == internalProviderPath(c.bucketPrefix, namespace, name, version, os, arch)
        zipURL == presignedURL(paths.archive, o.archive)
        shasumsURL == presignedURL(paths.shasum, o.shasum)
        signatureURL == presignedURL(paths.shasumSig, o.shasumSig)
        d == download(st, paths.shasum, o.download)
        sum == readSHASums(d.bytes, Base(paths.archive))
        keys == SigningKeys(c, st, namespace, o.keys)
        c1 == <<Call("PresignGetObject", paths.archive, o.archive)>>
        c2 == Append(c1, Call("PresignGetObject", paths.shasum, o.shasum))
        c3 == Append(c2, Call("PresignGetObject", paths.shasumSig, o.shasumSig))
        c4 == Append(c3, Call("Download", paths.shasum, o.download))
        c5 == c4 \o keys.calls
    IN  IF zipURL.panic THEN [calls |-> c1, result |-> Panicked]
        ELSE IF shasumsURL.panic THEN [calls |-> c2, result |-> Panicked]
        ELSE IF signatureURL.panic THEN [calls |-> c3, result |-> Panicked]
        ELSE IF d.err # NoError
        THEN [calls |-> c4, result |-> Returned(d.err, EmptyProvider)]
        ELSE IF sum.err # NoError
        THEN [calls |-> c4, result |-> Returned(sum.err, EmptyProvider)]
        ELSE IF keys.result.err # NoError
        THEN [calls |-> c5, result |-> Returned(keys.result.err, EmptyProvider)]
        ELSE [calls |-> c5,
              result |-> Returned(NoError,
                            [Namespace |-> namespace, Name |-> name,
                             Version |-> version, OS |-> os, Arch |-> arch,
                             Shasum |-> sum.shasum,
                             Filename |-> Base(paths.archive),
                             DownloadURL |-> zipURL.url,
                             SHASumsURL |-> shasumsURL.url,
                             SHASumsSignatureURL |-> signatureURL.url,
                             SigningKeys |-> keys.result.value])]

GetProviderCall ==
    /\ AtRest(1) /\ MigrationAtRest /\ ReadAtRest
    /\ \E namespace \in Namespaces, name \in ProviderNames,
          version \in ProviderVersions, os \in OSes, arch \in Arches :
        LET paths == internalProviderPath(cfg.bucketPrefix, namespace, name,
                                          version, os, arch) IN
        \E o \in [archive : PresignOutcomes, shasum : PresignOutcomes,
                  shasumSig : PresignOutcomes,
                  download : DownloadOutcomes(store, paths.shasum),
                  keys : DownloadOutcomes(store,
                             signingKeysPath(cfg.bucketPrefix, namespace))] :
            LET g == GetProvider(cfg, store, namespace, name, version, os, arch, o) IN
            rd' = [op |-> "GetProvider",
                   args |-> <<namespace, name, version, os, arch>>,
                   calls |-> g.calls, result |-> g.result]
    /\ ForgetUploads
    /\ mig' = NoMigration /\ log' = <<>>
    /\ UNCHANGED <<cfg, store>>

(***************************************************************************)
(* Layout migration helpers (package storage, outside s3.go)               *)
(***************************************************************************)
Tokens == Namespaces \cup ModuleNames \cup ModuleProviders \cup Versions
              \cup ProviderNames

\* the value of the segment field=value of a key, "" when it has none
LegacyField(key, field) ==
    LET hits == {v \in Tokens : \E i \in 1..Len(key) : key[i] = field \o "=" \o v}
    IN  IF hits = {} THEN "" ELSE CHOOSE v \in hits : TRUE

\* a key still in the old layout
isUnmigratedModule(prefix, key) ==
    /\ HasPrefix(key, Join(<<prefix, internalModuleType>>))
    /\ LegacyField(key, "namespace") # ""

\* the key of the same module in the current layout
migrationTargetPath(prefix, archiveFormat, key) ==
    modulePath(prefix, LegacyField(key, "namespace"), LegacyField(key, "name"),
               LegacyField(key, "provider"), LegacyField(key, "version"),
               archiveFormat)

isUnmigratedProvider(prefix, key) ==
    /\ HasPrefix(key, Join(<<prefix, internalProviderType>>))
    /\ LegacyField(key, "namespace") # ""

\* the directory of the key in the current layout: that of its namespace and
\* name for a key in the old layout, its own for any other key below the
\* providers directory
providerMigrationTargetPath(prefix, key) ==
    IF isUnmigratedProvider(prefix, key)
    THEN [err |-> NoError,
          directory |-> providerStoragePrefix(prefix, LegacyField(key, "namespace"),
                                              LegacyField(key, "name"))]
    ELSE IF Len(key) > Len(Join(<<prefix, internalProviderType>>))
    THEN [err |-> NoError, directory |-> SubSeq(key, 1, Len(key) - 1)]
    ELSE [err |-> Error("none", "none"), directory |-> <<>>]

\* a read hands its result to its caller
ReadReturn ==
    /\ rd # NoRead
    /\ rd' = NoRead
    /\ UNCHANGED <<cfg, store, pc, req, res, calls, mig, log>>

(***************************************************************************)
(* MigrateModules and MigrateProviders                                     *)
(***************************************************************************)
CopyOutcomes == {"ok", "failure"}

LogEntry(message, source, target) ==
    [message |-> message, source |-> source, target |-> target]

MigrationPrefix(c, op) ==
    IF op = "MigrateModules"
    THEN Join(<<c.bucketPrefix, internalModuleType>>)
    ELSE Join(<<c.bucketPrefix, internalProviderType>>)

\* lines 158-164 and 199-205: the paginator is set up, nothing is fetched yet
MigrateCall(op, dryRun) ==
    /\ AtRest(1) /\ MigrationAtRest
    /\ mig' = [op |-> op, dryRun |-> dryRun, pc |-> "page", token |-> 0,
               page |-> <<>>, more |-> TRUE, calls |-> <<>>, result |-> NoResult]
    /\ log' = <<>>
    /\ rd' = NoRead
    /\ ForgetUploads
    /\ UNCHANGED <<cfg, store>>

MigrateModulesCall == \E dryRun \in BOOLEAN : MigrateCall("MigrateModules", dryRun)
MigrateProvidersCall == \E dryRun \in BOOLEAN : MigrateCall("MigrateProviders", dryRun)

\* where the run stands once the objects in rest are left of the page
AfterObject(m, rest) ==
    IF rest # <<>> THEN [m EXCEPT !.pc = "object", !.page = rest]
    ELSE IF m.more THEN [m EXCEPT !.pc = "page", !.page = <<>>]
    ELSE [m EXCEPT !.pc = "done", !.page = <<>>, !.result = Returned(NoError, <<>>)]

\* the run going on with the next object after a failure
AbortObjectOnly(m, err) ==
    IF m.page # <<>> THEN AfterObject(m, Tail(m.page))
    ELSE [m EXCEPT !.pc = "done", !.result = Returned(err, <<>>)]

\* return err: the run is over
Abort(m, err) ==
    [m EXCEPT !.pc = "done", !.result = Returned(err, <<>>)]

\* lines 165-169 and 206-210: paginator.NextPage
MigrateNextPage(op) ==
    /\ mig.op = op /\ mig.pc = "page"
    /\ \E outcome \in PageOutcomes :
        LET keyPrefix == MigrationPrefix(cfg, op)
            pg == NextPage(cfg, store, keyPrefix, mig.token)
            called == [mig EXCEPT !.calls =
                          Append(@, Call("ListObjectsV2", keyPrefix, outcome))]
        IN  mig' = IF outcome = "failure"
                   THEN Abort(called, Error("none", BackendFailure))
                   ELSE AfterObject([called EXCEPT !.token = pg.token,
                                                   !.more = pg.truncated],
                                    pg.contents)
    /\ UNCHANGED <<cfg, store, pc, req, res, calls, rd, log>>

MigrateModulesNextPage == MigrateNextPage("MigrateModules")
MigrateProvidersNextPage == MigrateNextPage("MigrateProviders")

\* a move instead of a copy
CopyObjectMove(st, source, target) ==
    [k \in DOMAIN st |-> IF k = target THEN st[source]
                         ELSE IF k = source THEN 0 ELSE st[k]]

\* CopyObject inside the bucket
CopyObject(st, source, target) == [st EXCEPT ![target] = st[source]]

\* the copy made whether the run is dry or not
MigrateCopyAlways(key, targetKey) ==
    \E outcome \in CopyOutcomes :
    LET called == [mig EXCEPT !.calls =
                      Append(@, <<"CopyObject", key, outcome, targetKey>>)]
    IN  IF outcome = "failure"
        THEN /\ mig' = Abort(called, Error("none", BackendFailure))
             /\ UNCHANGED <<store, log>>
        ELSE /\ store' = [store EXCEPT ![targetKey] = store[key]]
             /\ log' = Append(log, LogEntry("copied module", key, targetKey))
             /\ mig' = AfterObject(called, Tail(mig.page))

\* lines 178-191 and 220-233: log under dry-run, copy otherwise
MigrateCopy(key, targetKey) ==
    IF mig.dryRun
    THEN /\ log' = Append(log, LogEntry("skipping due to dry-run", key, targetKey))
         /\ mig' = AfterObject(mig, Tail(mig.page))
         /\ UNCHANGED store
    ELSE \E outcome \in CopyOutcomes :
         LET called == [mig EXCEPT !.calls =
                           Append(@, <<"CopyObject", key, outcome, targetKey>>)]
         IN  IF outcome = "failure"
             THEN /\ mig' = Abort(called, Error("none", BackendFailure))
                  /\ UNCHANGED <<store, log>>
             ELSE /\ store' = CopyObject(store, key, targetKey)
                  /\ log' = Append(log, LogEntry("copied module", key, targetKey))
                  /\ mig' = AfterObject(called, Tail(mig.page))

\* lines 171-192: one object of the page
MigrateModulesObject ==
    /\ mig.op = "MigrateModules" /\ mig.pc = "object"
    /\ LET key == Head(mig.page) IN
       IF ~isUnmigratedModule(cfg.bucketPrefix, key)
       THEN /\ log' = Append(log, LogEntry("skipping...", key, <<>>))
            /\ mig' = AfterObject(mig, Tail(mig.page))
            /\ UNCHANGED store
       ELSE MigrateCopy(key, migrationTargetPath(cfg.bucketPrefix,
                                                 cfg.moduleArchiveFormat, key))
    /\ UNCHANGED <<cfg, pc, req, res, calls, rd>>

\* lines 212-234: one object of the page
MigrateProvidersObject ==
    /\ mig.op = "MigrateProviders" /\ mig.pc = "object"
    /\ LET key == Head(mig.page)
           t == providerMigrationTargetPath(cfg.bucketPrefix, key)
       IN  IF t.err # NoError
           THEN /\ mig' = Abort(mig, t.err)
                /\ UNCHANGED <<store, log>>
           ELSE MigrateCopy(key, Join(t.directory \o <<key[Len(key)]>>))
    /\ UNCHANGED <<cfg, pc, req, res, calls, rd>>

(***************************************************************************)
(* Specifications                                                          *)
(***************************************************************************)
UploadStep(p) ==
    \/ UploadModuleCall(p)
    \/ UploadModuleUpload(p)
    \/ UploadModuleReadBack(p)
    \/ UploadProviderReleaseFilesCall(p)
    \/ UploadProviderReleaseFilesUpload(p)

\* serving the registry: one operation at a time, issued by caller 1
Next ==
    \/ UploadStep(1)
    \/ GetModuleCall
    \/ ListModuleVersionsCall
    \/ ListProviderVersionsCall
    \/ GetProviderCall
    \/ SigningKeysCall
    \/ ReadReturn

Spec == Init /\ [][Next]_vars

\* the operator's migration runs, one after the other, on a bucket that is
\* not served meanwhile
NextMigrate ==
    \/ MigrateModulesCall
    \/ MigrateModulesNextPage
    \/ MigrateModulesObject
    \/ MigrateProvidersCall
    \/ MigrateProvidersNextPage
    \/ MigrateProvidersObject

SpecMigrate == InitMigrate /\ [][NextMigrate]_vars

\* one upload per caller, the uploads interleaving at their backend calls
NextConc == \E p \in Procs : pc[p] # "done" /\ UploadStep(p)

SpecConc == Init /\ [][NextConc]_vars

(***************************************************************************)
(* Vocabulary of the properties                                            *)
(***************************************************************************)
NoFailure(cs) == \A i \in 1..Len(cs) : cs[i][3] # "failure"
Uploads(cs) == {i \in 1..Len(cs) : cs[i][1] = "Upload"}
UploadedTo(cs, key) ==
    \E i \in 1..Len(cs) : cs[i][1] = "Upload" /\ cs[i][2] = key /\ cs[i][3] = "ok"

IsAlreadyExists(err) ==
    err.sentinel \in {"ErrModuleAlreadyExists", "ErrProviderAlreadyExists"}

\* the error kinds that say "no such entity" by type
NotFoundSentinels ==
    {"ErrModuleNotFound", "ErrProviderNotFound", "ErrSigningKeysNotFound"}
IsNotFound(err) == err.sentinel \in NotFoundSentinels

ModuleOf(r, url) ==
    [Namespace |-> r.namespace, Name |-> r.name, Provider |-> r.provider,
     Version |-> r.version, DownloadURL |-> url]

SameCoordinates(r, q) ==
    /\ r.namespace = q.namespace /\ r.name = q.name
    /\ r.provider = q.provider /\ r.version = q.version

\* caller p starts a new upload in this step
StartsUpload(p, op) ==
    /\ AtRest(p)
    /\ req'[p].op = op
    /\ <<pc[p], req[p], res[p], calls[p]>>' # <<pc[p], req[p], res[p], calls[p]>>

\* caller p issues a put in this step
IssuesUpload(p, key) ==
    /\ Len(calls'[p]) = Len(calls[p]) + 1
    /\ calls'[p][Len(calls'[p])][1] = "Upload"
    /\ calls'[p][Len(calls'[p])][2] = key

(***************************************************************************)
(* C1: with no backend failure, an UploadModule of an absent coordinate    *)
(* returns, through its closing GetModule of the same coordinates, the     *)
(* module with the uploaded namespace, name, provider and version, and the *)
(* key it has written is the key GetModule checks.                         *)
(***************************************************************************)
C1_UploadThenGet ==
    \A p \in Procs :
        ( /\ pc[p] = "done"
          /\ req[p].op = "UploadModule"
          /\ ValidModuleRequest(req[p])
          /\ NoFailure(calls[p])
          /\ calls[p][1][3] = "404" )
        => /\ res[p].status = "returned"
           /\ res[p].err = NoError
           /\ res[p].value =
                ModuleOf(req[p], PresignedURL(UploadModuleKey(cfg, req[p])))
           /\ UploadedTo(calls[p], GetModuleKey(cfg, req[p].namespace, req[p].name,
                                                req[p].provider, req[p].version))

(***************************************************************************)
(* C2: with no backend failure, an UploadModule with the coordinates of    *)
(* the caller's preceding UploadModule, whose put went through, fails with *)
(* ErrModuleAlreadyExists and issues no put.                               *)
(***************************************************************************)
C2_SecondUploadRejected ==
    [][\A p \in Procs :
        ( /\ pc[p] = "done"
          /\ req[p].op = "UploadModule"
          /\ NoFailure(calls[p])
          /\ UploadedTo(calls[p], UploadModuleKey(cfg, req[p]))
          /\ StartsUpload(p, "UploadModule")
          /\ SameCoordinates(req[p], req'[p])
          /\ NoFailure(calls'[p]) )
        => /\ pc'[p] = "done"
           /\ res'[p].err = ErrModuleAlreadyExists
           /\ Uploads(calls'[p]) = {}
      ]_vars

(***************************************************************************)
(* C3: once an object exists at a module key, no UploadModule issues a put *)
(* to that key, whatever the outcomes of the existence check's calls.      *)
(***************************************************************************)
C3_ModulesImmutable ==
    [][\A p \in Procs :
        (req[p].op = "UploadModule" /\ pc[p] = "UploadModule:upload")
        => \A k \in Keys(cfg.bucketPrefix) :
              store[k] # 0 => ~IssuesUpload(p, k)
      ]_vars

(***************************************************************************)
(* C4 as claimed: an UploadProviderReleaseFiles whose key already holds an *)
(* object fails with ErrProviderAlreadyExists, issues no put and leaves    *)
(* the bucket as it is.                                                    *)
(***************************************************************************)
C4_Original ==
    [][\A p \in Procs :
        ( /\ StartsUpload(p, "UploadProviderReleaseFiles")
          /\ ValidProviderRequest(req'[p])
          /\ store[ProviderReleaseKey(cfg, req'[p])] # 0 )
        => /\ pc'[p] = "done"
           /\ res'[p].err = ErrProviderAlreadyExists
           /\ Uploads(calls'[p]) = {}
           /\ store' = store
      ]_vars

(***************************************************************************)
(* C4 as amended: an UploadProviderReleaseFiles whose key already holds an *)
(* object fails, issues no put and leaves the bucket as it is; the error   *)
(* is ErrProviderAlreadyExists when HeadObject succeeds and the error of   *)
(* HeadObject when HeadObject fails.                                       *)
(***************************************************************************)
C4_ExistingRejected ==
    [][\A p \in Procs :
        ( /\ StartsUpload(p, "UploadProviderReleaseFiles")
          /\ ValidProviderRequest(req'[p])
          /\ store[ProviderReleaseKey(cfg, req'[p])] # 0 )
        => /\ pc'[p] = "done"
           /\ res'[p].err = IF calls'[p][1][3] = "ok"
                            THEN ErrProviderAlreadyExists
                            ELSE Error("none", BackendFailure)
           /\ Uploads(calls'[p]) = {}
           /\ store' = store
      ]_vars

\* the second of two uploads of one release file has been rejected
C4_Witness ==
    /\ pc[1] = "done"
    /\ req[1].op = "UploadProviderReleaseFiles"
    /\ res[1].err = ErrProviderAlreadyExists
    /\ calls[1] = <<Call("HeadObject", ProviderReleaseKey(cfg, req[1]), "ok")>>
    /\ store[ProviderReleaseKey(cfg, req[1])] # 0

(***************************************************************************)
(* C5: duplicates are rejected at the existence check only.  A caller that *)
(* has found the key absent issues its put whatever has been written to    *)
(* the key since, and never returns AlreadyExists; so two uploads that     *)
(* both pass the check before either writes both put to the same key       *)
(* (C5_Witness is that interleaving).                                      *)
(***************************************************************************)
C5_BestEffort ==
    \A p \in Procs :
        /\ (pc[p] \in {"UploadModule:upload", "UploadModule:readback",
                       "UploadProviderReleaseFiles:upload"}
              \/ Uploads(calls[p]) # {})
           => ~IsAlreadyExists(res[p].err)
        /\ (pc[p] = "done" /\ calls[p] # <<>> /\ calls[p][1][3] = "404")
           => Uploads(calls[p]) # {}

\* both callers found the same key absent, both have put to it, neither was
\* told AlreadyExists
C5_Witness ==
    /\ pc[1] = "done" /\ pc[2] = "done"
    /\ req[1].op = req[2].op
    /\ calls[1] # <<>> /\ calls[2] # <<>>
    /\ calls[1][1] = calls[2][1]
    /\ calls[1][1][3] = "404"
    /\ \E k \in Keys(cfg.bucketPrefix) :
          UploadedTo(calls[1], k) /\ UploadedTo(calls[2], k)
    /\ ~IsAlreadyExists(res[1].err) /\ ~IsAlreadyExists(res[2].err)

(***************************************************************************)
(* C6: when no page fetch fails and no listed key parses,                  *)
(* ListModuleVersions returns an empty list and no error, and              *)
(* ListProviderVersions returns an error and no list.                      *)
(***************************************************************************)
NoModuleParses(c, st, args) ==
    LET listed == Listed(c, st, modulePathPrefix(c.bucketPrefix, args[1], args[2], args[3]))
    IN  \A i \in 1..Len(listed) : moduleFromObject(listed[i], c.moduleArchiveFormat).err

NoProviderParses(c, st, args) ==
    LET listed == Listed(c, st, providerStoragePrefix(c.bucketPrefix, args[1], args[2]))
    IN  \A i \in 1..Len(listed) : NewProviderFromArchive(listed[i]).err

C6_EmptyListings ==
    /\ ( /\ rd.op = "ListModuleVersions"
         /\ NoFailure(rd.calls)
         /\ NoModuleParses(cfg, store, rd.args) )
       => /\ rd.result.status = "returned"
          /\ rd.result.err = NoError
          /\ rd.result.value = <<>>
    /\ ( /\ rd.op = "ListProviderVersions"
         /\ NoFailure(rd.calls)
         /\ NoProviderParses(cfg, store, rd.args) )
       => /\ rd.result.status = "returned"
          /\ rd.result.err # NoError
          /\ rd.result.value = <<>>

\* a provider listing that found objects, none of them an archive
C6_Witness ==
    /\ rd.op = "ListProviderVersions"
    /\ NoFailure(rd.calls)
    /\ Len(Listed(cfg, store,
                  providerStoragePrefix(cfg.bucketPrefix, rd.args[1], rd.args[2]))) > 0
    /\ NoProviderParses(cfg, store, rd.args)
    /\ rd.result.err # NoError

(***************************************************************************)
(* C7: an absent entity is reported by an error of a NotFound kind:        *)
(* GetModule on an absent key, ListProviderVersions finding no version and *)
(* SigningKeys without a key set object each return an error that is or    *)
(* wraps a NotFound sentinel.                                              *)
(***************************************************************************)
C7_AbsentIsNotFound ==
    /\ ( /\ rd.op = "GetModule"
         /\ rd.calls[1][3] = "404" )
       => IsNotFound(rd.result.err)
    /\ ( /\ rd.op = "ListProviderVersions"
         /\ NoFailure(rd.calls)
         /\ NoProviderParses(cfg, store, rd.args) )
       => IsNotFound(rd.result.err)
    /\ ( /\ rd.op = "SigningKeys"
         /\ rd.calls # <<>>
         /\ rd.calls[1][3] = NoSuchKey )
       => IsNotFound(rd.result.err)

(***************************************************************************)
(* Migration vocabulary                                                    *)
(***************************************************************************)
Copies(cs) == {i \in 1..Len(cs) : cs[i][1] = "CopyObject"}

\* a key still to be migrated by the run
Candidate(c, op, key) ==
    IF op = "MigrateModules"
    THEN isUnmigratedModule(c.bucketPrefix, key)
    ELSE isUnmigratedProvider(c.bucketPrefix, key)

IsLegacy(c, key) ==
    isUnmigratedModule(c.bucketPrefix, key) \/ isUnmigratedProvider(c.bucketPrefix, key)

\* the key the run copies the candidate to
TargetOf(c, op, key) ==
    IF op = "MigrateModules"
    THEN modulePath(c.bucketPrefix, LegacyField(key, "namespace"),
                    LegacyField(key, "name"), LegacyField(key, "provider"),
                    LegacyField(key, "version"), c.moduleArchiveFormat)
    ELSE Join(providerStoragePrefix(c.bucketPrefix, LegacyField(key, "namespace"),
                                    LegacyField(key, "name")) \o <<key[Len(key)]>>)

\* the keys of the pages fetched so far that the run is done with
Processed(c, st, m) ==
    {k \in Keys(c.bucketPrefix) :
        /\ st[k] # 0
        /\ HasPrefix(k, MigrationPrefix(c, m.op))
        /\ Rank(c.bucketPrefix, k) <= m.token
        /\ \A i \in 1..Len(m.page) : m.page[i] # k}

DryRunEntries(l, key) ==
    {i \in 1..Len(l) : l[i].message = "skipping due to dry-run" /\ l[i].source = key}

(***************************************************************************)
(* C8: a dry run issues no CopyObject and leaves the bucket as it is, and  *)
(* it logs exactly one source/target pair, with the computed target, for   *)
(* each still-legacy key of the pages it has gone through.                 *)
(***************************************************************************)
C8_DryRun ==
    [][(mig'.op # "none" /\ mig'.dryRun)
        => /\ store' = store
           /\ Copies(mig'.calls) = {}
           /\ \A k \in Processed(cfg, store, mig') :
                Candidate(cfg, mig'.op, k)
                => /\ Cardinality(DryRunEntries(log', k)) = 1
                   /\ \A i \in DryRunEntries(log', k) :
                        log'[i].target = TargetOf(cfg, mig'.op, k)
      ]_vars

\* a dry run that is through with several pages of legacy keys
C8_Witness ==
    /\ mig.dryRun /\ mig.pc = "done"
    /\ mig.result.err = NoError
    /\ Len(mig.calls) >= 2
    /\ Cardinality({k \in Processed(cfg, store, mig) : Candidate(cfg, mig.op, k)}) >= 2
    /\ Len(log) >= 2

(***************************************************************************)
(* C9: a live run skips every listed key that is already in the current    *)
(* layout: for such a key it issues no CopyObject, does not end with an    *)
(* error and leaves the bucket as it is.                                   *)
(***************************************************************************)
C9_SkipsCurrentKeys ==
    [][( /\ mig.pc = "object"
         /\ ~mig.dryRun
         /\ ~Candidate(cfg, mig.op, Head(mig.page))
         /\ mig' # mig )
        => /\ mig'.calls = mig.calls
           /\ mig'.result.err = NoError
           /\ store' = store
      ]_vars

(***************************************************************************)
(* C10: migration copies forward.  No step of a run, dry or live, changes  *)
(* or removes an object at a key of the old layout, and the only change a  *)
(* step makes to the bucket is a successful CopyObject of the object being *)
(* processed to its computed target.                                       *)
(***************************************************************************)
C10_CopyForward ==
    [][(mig.op # "none" /\ mig'.op = mig.op)
        => /\ \A k \in Keys(cfg.bucketPrefix) :
                (IsLegacy(cfg, k) /\ store[k] # 0) => store'[k] = store[k]
           /\ store' # store
                => /\ mig.pc = "object" /\ ~mig.dryRun
                   /\ Len(mig'.calls) = Len(mig.calls) + 1
                   /\ LET call == mig'.calls[Len(mig'.calls)] IN
                      /\ call[1] = "CopyObject" /\ call[2] = Head(mig.page)
                      /\ call[3] = "ok"
                      /\ store' = [store EXCEPT ![call[4]] = store[call[2]]]
      ]_vars

\* a live run has copied a legacy object, and the object is still there
C10_Witness ==
    /\ mig.op # "none" /\ ~mig.dryRun
    /\ \E i \in Copies(mig.calls) :
          /\ mig.calls[i][3] = "ok"
          /\ IsLegacy(cfg, mig.calls[i][2])
          /\ mig.calls[i][4] # mig.calls[i][2]
          /\ store[mig.calls[i][2]] # 0
          /\ store[mig.calls[i][4]] = store[mig.calls[i][2]]

(***************************************************************************)
(* Vocabulary of the read operations                                       *)
(***************************************************************************)
\* the keys of the provider a GetProvider is about
PathsOf(read) ==
    internalProviderPath(cfg.bucketPrefix, read.args[1], read.args[2],
                         read.args[3], read.args[4], read.args[5])

\* the read has made this call with this outcome
HasCall(read, api, key, outcome) ==
    \E i \in 1..Len(read.calls) : read.calls[i] = Call(api, key, outcome)

\* the lines of a manifest that are for the file
LinesFor(raw, filename) ==
    {i \in 1..Len(Manifest(raw)) : Manifest(raw)[i].filename = filename}

(***************************************************************************)
(* C11: a GetProvider that returns without error has downloaded the        *)
(* version's shasums manifest, the manifest has a line for the file name   *)
(* of the archive, the returned Shasum is the digest of that line and the  *)
(* returned Filename is the base name of the archive key; a GetProvider    *)
(* that has downloaded a manifest without a line for the file returns an   *)
(* error and the empty Provider.                                           *)
(***************************************************************************)
C11_ShasumFromManifest ==
    (rd.op = "GetProvider" /\ rd.result.status = "returned")
    => LET paths == PathsOf(rd)
           filename == ArchiveFileName(rd.args[2], rd.args[3], rd.args[4], rd.args[5])
           downloaded == HasCall(rd, "Download", paths.shasum, "ok")
           raw == store[paths.shasum]
       IN  /\ rd.result.err = NoError
                => /\ downloaded /\ raw # 0
                   /\ \E i \in LinesFor(raw, filename) :
                         rd.result.value.Shasum = Manifest(raw)[i].digest
                   /\ rd.result.value.Filename = filename
                   /\ filename = Base(paths.archive)
           /\ (downloaded /\ LinesFor(raw, filename) = {})
                => /\ rd.result.err # NoError
                   /\ rd.result.value = EmptyProvider

\* a GetProvider has returned the provider with the digest of its archive
C11_Witness ==
    /\ rd.op = "GetProvider" /\ rd.result.status = "returned"
    /\ rd.result.err = NoError
    /\ rd.result.value.Shasum = "aaa111"
    /\ rd.result.value.Filename = ArchiveFile

\* a GetProvider has found no line for its archive in the manifest
C11_WitnessAbsent ==
    /\ rd.op = "GetProvider" /\ rd.result.status = "returned"
    /\ HasCall(rd, "Download", PathsOf(rd).shasum, "ok")
    /\ store[PathsOf(rd).shasum] = 2
    /\ rd.result.err # NoError

(***************************************************************************)
(* C12: in a live migration a failed CopyObject is the last backend call   *)
(* of the run: the run is over and has returned the failure, no CopyObject *)
(* and no page fetch follows it, the failed copy is not issued again, and  *)
(* the targets of the copies made before it are still in the bucket.       *)
(***************************************************************************)
FailedCopies(cs) == {i \in Copies(cs) : cs[i][3] = "failure"}

C12_FirstCopyFailureEnds ==
    \A i \in FailedCopies(mig.calls) :
        /\ ~mig.dryRun
        /\ i = Len(mig.calls)
        /\ mig.pc = "done"
        /\ mig.result = Returned(Error("none", BackendFailure), <<>>)
        /\ \A j \in Copies(mig.calls) :
              j < i => /\ mig.calls[j][3] = "ok"
                       /\ mig.calls[j] # [mig.calls[i] EXCEPT ![3] = "ok"]
                       /\ store[mig.calls[j][4]] # 0
                       /\ store[mig.calls[j][4]] = store[mig.calls[j][2]]

\* a live run has ended on a failed copy after a copy to a new key that
\* went through
C12_Witness ==
    /\ FailedCopies(mig.calls) # {}
    /\ \E j \in Copies(mig.calls) :
          /\ mig.calls[j][3] = "ok"
          /\ mig.calls[j][4] # mig.calls[j][2]
          /\ store[mig.calls[j][4]] # 0
    /\ mig.pc = "done"
    /\ mig.result.err # NoError

\* a live run has ended on a failed copy with a page of its listing still
\* to come
C12_WitnessRemaining ==
    /\ FailedCopies(mig.calls) # {}
    /\ mig.pc = "done"
    /\ mig.more

(***************************************************************************)
(* Listings that fail                                                      *)
(***************************************************************************)
FailedCalls(read, api) ==
    {i \in 1..Len(read.calls) : read.calls[i][1] = api /\ read.calls[i][3] = "failure"}

ListFailedOf(op) ==
    IF op = "ListModuleVersions" THEN ErrModuleListFailed ELSE ErrProviderListFailed

\* a listing whose page fetch has failed returns its ListFailed error and no
\* entry, whatever the pages before have given
PageFailureReturnsNothing ==
    ( /\ rd.op \in {"ListModuleVersions", "ListProviderVersions"}
      /\ FailedCalls(rd, "ListObjectsV2") # {} )
    => rd.result = Returned(ListFailedOf(rd.op), <<>>)

\* a ListModuleVersions whose presign has failed returns an error and no entry
PresignFailureReturnsNothing ==
    ( /\ rd.op = "ListModuleVersions"
      /\ FailedCalls(rd, "PresignGetObject") # {} )
    => /\ rd.result.status = "returned"
       /\ rd.result.err # NoError
       /\ rd.result.value = <<>>

(***************************************************************************)
(* C13: a ListModuleVersions or ListProviderVersions one of whose page     *)
(* fetches fails returns ErrModuleListFailed / ErrProviderListFailed and   *)
(* no entries, also after pages that were fetched and parsed; and a        *)
(* ListModuleVersions one of whose presigns fails returns an error and an  *)
(* empty list.                                                             *)
(***************************************************************************)
C13_ListFailures == PageFailureReturnsNothing /\ PresignFailureReturnsNothing

(***************************************************************************)
(* C14: with no backend failure ListModuleVersions fetches page after page *)
(* until none remains and returns, in listing order and each with its      *)
(* presigned URL, one module for every listed key that is the key of a     *)
(* version in the configured archive format; the other keys are skipped    *)
(* and stop nothing.                                                       *)
(***************************************************************************)
ListedUnder(read) ==
    Listed(cfg, store, modulePathPrefix(cfg.bucketPrefix, read.args[1],
                                        read.args[2], read.args[3]))

\* the version whose archive in the configured format the key is, if any
VersionsAt(read, key) ==
    {v \in Versions :
        key = modulePath(cfg.bucketPrefix, read.args[1], read.args[2],
                         read.args[3], v, cfg.moduleArchiveFormat)}

ExpectedModules(read) ==
    LET accepted == SelectSeq(ListedUnder(read), LAMBDA k : VersionsAt(read, k) # {})
    IN  [i \in 1..Len(accepted) |->
            [Namespace |-> read.args[1], Name |-> read.args[2],
             Provider |-> read.args[3],
             Version |-> CHOOSE v \in VersionsAt(read, accepted[i]) : TRUE,
             DownloadURL |-> PresignedURL(accepted[i])]]

PageFetches(read) ==
    {i \in 1..Len(read.calls) : read.calls[i][1] = "ListObjectsV2"}

C14_ListsEveryModule ==
    (rd.op = "ListModuleVersions" /\ NoFailure(rd.calls))
    => /\ rd.result = Returned(NoError, ExpectedModules(rd))
       /\ Cardinality(PageFetches(rd)) =
            IF ListedUnder(rd) = <<>> THEN 1
            ELSE (Len(ListedUnder(rd)) + PageSize - 1) \div PageSize

\* a listing of two pages has returned two modules and skipped two keys
C14_Witness ==
    /\ rd.op = "ListModuleVersions" /\ NoFailure(rd.calls)
    /\ Cardinality(PageFetches(rd)) >= 2
    /\ Len(rd.result.value) = 2
    /\ Len(ListedUnder(rd)) = 4
    /\ rd.result.value[1].Version = "1.0.0"
    /\ rd.result.value[2].Version = "1.1.0"

(***************************************************************************)
(* C15: objectExists is (true, nil) when HeadObject succeeds, (false, nil) *)
(* only when it fails with a 404 response error, and (false, the error)    *)
(* for any other failure; a GetModule whose HeadObject gets the 404        *)
(* returns ErrModuleNotFound, and one whose HeadObject fails otherwise     *)
(* returns that failure, which is not ErrModuleNotFound.                   *)
(***************************************************************************)
C15_ExistenceCheck ==
    /\ objectExists("ok") = [exists |-> TRUE, err |-> NoError]
    /\ objectExists("404") = [exists |-> FALSE, err |-> NoError]
    /\ objectExists("failure") = [exists |-> FALSE, err |-> Error("none", BackendFailure)]
    /\ rd.op = "GetModule"
        => LET head == rd.calls[1] IN
           /\ head[1] = "HeadObject"
           /\ head[2] = GetModuleKey(cfg, rd.args[1], rd.args[2], rd.args[3], rd.args[4])
           /\ head[3] = "404"
                => /\ store[head[2]] = 0
                   /\ rd.result = Returned(ErrModuleNotFound, EmptyModule)
           /\ head[3] = "failure"
                => /\ rd.result.status = "returned"
                   /\ rd.result.err.cause = BackendFailure
                   /\ rd.result.err.sentinel # ErrModuleNotFound.sentinel
                   /\ rd.result.value = EmptyModule
           /\ head[3] = "ok"
                => /\ store[head[2]] # 0
                   /\ rd.result.err = NoError

\* a GetModule of a stored module has come back with the failure of its
\* HeadObject
C15_Witness ==
    /\ rd.op = "GetModule"
    /\ rd.calls[1] = Call("HeadObject",
                          GetModuleKey(cfg, rd.args[1], rd.args[2], rd.args[3], rd.args[4]),
                          "failure")
    /\ store[rd.calls[1][2]] # 0
    /\ rd.result = Returned(Error("none", BackendFailure), EmptyModule)

\* a GetModule of a module that is not stored has come back with
\* ErrModuleNotFound
C15_WitnessNotFound ==
    /\ rd.op = "GetModule"
    /\ rd.calls[1][3] = "404"
    /\ rd.result.err = ErrModuleNotFound

(***************************************************************************)
(* The sub-steps of GetProvider                                            *)
(***************************************************************************)
\* the backend calls of a GetProvider that goes through, in order
GetProviderSteps(read) ==
    << <<"PresignGetObject", PathsOf(read).archive>>,
       <<"PresignGetObject", PathsOf(read).shasum>>,
       <<"PresignGetObject", PathsOf(read).shasumSig>>,
       <<"Download", PathsOf(read).shasum>>,
       <<"Download", signingKeysPath(cfg.bucketPrefix, read.args[1])>> >>

\* the calls made are the first sub-steps, in their order, all but the last
\* of them successful; the signing keys are loaded only after a digest was
\* found in the manifest
SubStepsInOrder ==
    rd.op = "GetProvider"
    => /\ Len(rd.calls) \in 1..5
       /\ \A i \in 1..Len(rd.calls) :
             /\ <<rd.calls[i][1], rd.calls[i][2]>> = GetProviderSteps(rd)[i]
             /\ i < Len(rd.calls) => rd.calls[i][3] = "ok"
       /\ Len(rd.calls) = 5
             => LinesFor(store[PathsOf(rd).shasum],
                         Base(PathsOf(rd).archive)) # {}

\* a sub-step that fails ends the operation with an error and the empty
\* Provider
FailedSubStepReturnsError ==
    ( /\ rd.op = "GetProvider"
      /\ \/ rd.calls[Len(rd.calls)][3] # "ok"
         \/ Len(rd.calls) = 4 )
    => /\ rd.result.status = "returned"
       /\ rd.result.err # NoError
       /\ rd.result.value = EmptyProvider

(***************************************************************************)
(* C16: GetProvider presigns the archive, presigns the shasums, presigns   *)
(* the signature, downloads the shasums manifest, extracts the digest and  *)
(* loads the signing keys, in this order; a sub-step that fails, a presign *)
(* included, is the last one executed, and the operation returns its error *)
(* and the empty Provider.                                                 *)
(***************************************************************************)
C16_SubSteps == SubStepsInOrder /\ FailedSubStepReturnsError

(***************************************************************************)
(* C17: an UploadModule with an empty namespace, name, provider or         *)
(* version, and an UploadProviderReleaseFiles with an empty namespace,     *)
(* name or filename, return a validation error at once: no HeadObject, no  *)
(* presign and no put is issued, and the bucket is as it was.              *)
(***************************************************************************)
HasEmptyField(r) ==
    IF r.op = "UploadModule"
    THEN "" \in {r.namespace, r.name, r.provider, r.version}
    ELSE "" \in {r.namespace, r.name, r.filename}

C17_ValidationFirst ==
    [][\A p \in Procs :
        ( /\ \/ StartsUpload(p, "UploadModule")
             \/ StartsUpload(p, "UploadProviderReleaseFiles")
          /\ HasEmptyField(req'[p]) )
        => /\ pc'[p] = "done"
           /\ res'[p].status = "returned"
           /\ res'[p].err = Error("none", "none")
           /\ calls'[p] = <<>>
           /\ store' = store
      ]_vars

\* an UploadModule without a version has been turned down on a bucket that
\* holds objects
C17_Witness ==
    /\ pc[1] = "done"
    /\ req[1].op = "UploadModule"
    /\ req[1].version = "" /\ req[1].namespace # ""
    /\ res[1].err = Error("none", "none")
    /\ calls[1] = <<>>
    /\ \E k \in Keys(cfg.bucketPrefix) : store[k] # 0

\* an UploadProviderReleaseFiles without a file name has been turned down
C17_WitnessProvider ==
    /\ pc[1] = "done"
    /\ req[1].op = "UploadProviderReleaseFiles"
    /\ req[1].filename = "" /\ req[1].namespace # ""
    /\ res[1].err = Error("none", "none")
    /\ calls[1] = <<>>

(***************************************************************************)
(* What an UploadModule has written                                        *)
(***************************************************************************)
UploadModuleDone(p) == pc[p] = "done" /\ req[p].op = "UploadModule"
Written(p) == UploadedTo(calls[p], UploadModuleKey(cfg, req[p]))

(***************************************************************************)
(* C18 as claimed: an UploadModule that has put its object ends in a       *)
(* successful return; one that returns an error has written nothing.       *)
(***************************************************************************)
C18_Original ==
    \A p \in Procs :
        (UploadModuleDone(p) /\ Written(p))
        => res[p].status = "returned" /\ res[p].err = NoError

(***************************************************************************)
(* C18: an UploadModule that returns a validation error,                   *)
(* ErrModuleAlreadyExists or ErrModuleUploadFailed has written nothing,    *)
(* and one that returns without error has written its object; once the put *)
(* has gone through the object stays in the bucket with the uploaded       *)
(* content, whatever the closing GetModule gives back.                     *)
(***************************************************************************)
C18_NoUndo ==
    \A p \in Procs :
        UploadModuleDone(p)
        => /\ ( \/ HasEmptyField(req[p])
                \/ res[p].err \in {ErrModuleAlreadyExists, ErrModuleUploadFailed} )
              => ~Written(p)
           /\ (res[p].status = "returned" /\ res[p].err = NoError) => Written(p)
           /\ Written(p) => store[UploadModuleKey(cfg, req[p])] = req[p].body

\* under the default archive format an UploadModule has stored its object
\* and returned the failure of its closing GetModule
C18_Witness ==
    /\ UploadModuleDone(1) /\ Written(1)
    /\ cfg.moduleArchiveFormat = DefaultModuleArchiveFormat
    /\ res[1] = Returned(Error("none", BackendFailure), EmptyModule)
    /\ store[UploadModuleKey(cfg, req[1])] = req[1].body

(***************************************************************************)
(* C19: GetModule, ListModuleVersions, GetProvider, ListProviderVersions   *)
(* and SigningKeys issue no put and no copy, whatever the outcomes of      *)
(* their backend calls, and leave every key of the bucket and its content  *)
(* as they were.                                                           *)
(***************************************************************************)
ReadOperations ==
    {"GetModule", "ListModuleVersions", "GetProvider", "ListProviderVersions",
     "SigningKeys"}

ReadOnlyAPIs == {"HeadObject", "PresignGetObject", "ListObjectsV2", "Download"}

C19_ReadsLeaveBucket ==
    [][(rd' # rd /\ rd'.op \in ReadOperations)
        => /\ store' = store
           /\ \A i \in 1..Len(rd'.calls) : rd'.calls[i][1] \in ReadOnlyAPIs
      ]_vars

\* a SigningKeys has found no key set in a bucket, and the bucket still has
\* none
C19_Witness ==
    /\ rd.op = "SigningKeys"
    /\ HasCall(rd, "Download", signingKeysPath(cfg.bucketPrefix, rd.args[1]), NoSuchKey)
    /\ store[signingKeysPath(cfg.bucketPrefix, rd.args[1])] = 0

\* a GetProvider has gone through all its sub-steps
C19_WitnessGetProvider ==
    /\ rd.op = "GetProvider"
    /\ Len(rd.calls) = 5
    /\ rd.result.err = NoError
====
